---- MODULE Spec2Model ----
(***************************************************************************)
(* A model of the pujogone metro tooling:                                  *)
(*   - find_nearest_metro.py : haversine_distance,                         *)
(*     find_nearest_metro_station, process_pandals_with_metro_data         *)
(*   - fetch_metro_details.py: MetroStationFetcher (coordinate resolver,   *)
(*     station store, scrape / force-fix operations)                       *)
(* Python dicts are functions from string keys to values; a key a dict     *)
(* does not carry is a key outside the function's DOMAIN.                  *)
(***************************************************************************)
EXTENDS Integers, Sequences, FiniteSets, TLC

VARIABLES
    metro_stations,   \* find_nearest_metro.py: the loaded kolkata_metro_stations.json
    pandals_data,     \* find_nearest_metro.py: pandals_data['data']
    nearest_result,   \* last direct call of find_nearest_metro_station: args and result
    run,              \* outcome of process_pandals_with_metro_data
    res_fn,           \* fetch_metro_details.py: the resolver method called
    res_pc,           \* "idle", "running" (between two attempts) or "done"
    res_attempt,      \* number of query/endpoint attempts made so far
    res_response,     \* the response of the latest requests.get
    res_result,       \* what the resolver returned
    res_earlier,      \* history: an earlier attempt's response held an in-box match
    stations_file,    \* kolkata_metro_stations.json as it is on disk
    op,               \* the MetroStationFetcher operation called last
    summary,          \* what that operation counted
    save_pc,          \* save_stations: "idle", "open" (about to open) or "dump"
    save_list,        \* save_stations: the stations argument
    save_pos,         \* save_stations: how many stations json.dump has written
    prev_file,        \* history: the file when the operation loaded it
    save_failed       \* history: the last save_stations caught an exception

nearestVars == <<metro_stations, pandals_data, nearest_result, run>>
resolverVars == <<res_fn, res_pc, res_attempt, res_response, res_result, res_earlier>>
storeVars == <<stations_file, op, summary, save_pc, save_list, save_pos, prev_file,
               save_failed>>
vars == <<nearestVars, resolverVars, storeVars>>

(***************************************************************************)
(* Bounds of the model.                                                    *)
(***************************************************************************)
MaxStations == 3
MaxPandals == 2
\* matches of all patterns together in one response
MaxMatches == 3
\* stations in kolkata_metro_stations.json
MaxFileStations == 2
\* fractional digits a coordinate of the model may carry
FracDigits == 8

\* Python's None
None == [none |-> TRUE]
\* the parts of the state an operation of another script leaves untouched
NearestIdle ==
    /\ metro_stations = <<>>
    /\ pandals_data = <<>>
    /\ nearest_result = None
    /\ run = None

ResolverIdle ==
    /\ res_fn = "none"
    /\ res_pc = "idle"
    /\ res_attempt = 0
    /\ res_response = None
    /\ res_result = None
    /\ res_earlier = FALSE

StoreIdle ==
    /\ stations_file = None
    /\ op = "none"
    /\ summary = None
    /\ save_pc = "idle"
    /\ save_list = <<>>
    /\ save_pos = 0
    /\ prev_file = None
    /\ save_failed = FALSE

\* float('inf'): above every distance of the grid (at most 4000000)
Inf == 2000000000

(***************************************************************************)
(* find_nearest_metro.py                                                   *)
(***************************************************************************)

\* Coordinates of the nearest-station search lie on a 30-degree grid, on which
\* the cosine is tabulated in hundredths.
GridLat == {0, 30}
GridLon == {0, 30, 60}

Abs(x) == IF x < 0 THEN -x ELSE x

Cos100(deg) ==
    CASE Abs(deg) = 0 -> 100
      [] Abs(deg) = 30 -> 87
      [] Abs(deg) = 60 -> 50
      [] Abs(deg) = 90 -> 0
      [] OTHER -> 0 - 50

\* haversine_distance: a = sin^2(dlat/2) + cos(lat1) cos(lat2) sin^2(dlon/2), with
\* sin^2(x/2) = (1 - cos x)/2, in units of 1/2000000.  The returned distance
\* 2 r asin(sqrt(a)) is strictly increasing in a on [0, 1], so the model carries a
\* as the distance: every comparison of two distances is the comparison of their a.
haversine_distance(lat1, lon1, lat2, lon2) ==
    LET dlat == lat2 - lat1
        dlon == lon2 - lon1
    IN  (100 - Cos100(dlat)) * 10000
          + Cos100(lat1) * Cos100(lat2) * (100 - Cos100(dlon))

\* mutant of LessThan: a later station at the same distance replaces the minimum
LessThan_OrEqual(distance, min_distance) == distance <= min_distance

\* the comparison that replaces the retained minimum: distance < min_distance
LessThan(distance, min_distance) == distance < min_distance

\* the loop of find_nearest_metro_station over metro_stations[1..k], as the pair
\* <<nearest_station, min_distance>> it has computed after k iterations
RECURSIVE ScanStations(_, _, _, _)
ScanStations(pandal_lat, pandal_lon, stations, k) ==
    IF k = 0 THEN <<None, Inf>>
    ELSE LET prev == ScanStations(pandal_lat, pandal_lon, stations, k - 1)
             station == stations[k]
             distance == haversine_distance(pandal_lat, pandal_lon,
                                            station["latitude"], station["longitude"])
         IN  IF LessThan(distance, prev[2]) THEN <<station, distance>> ELSE prev

\* mutant of find_nearest_metro_station: the scan stops one station early
find_nearest_skips_last(pandal_lat, pandal_lon, stations) ==
    ScanStations(pandal_lat, pandal_lon, stations,
                 IF Len(stations) = 0 THEN 0 ELSE Len(stations) - 1)

find_nearest_metro_station(pandal_lat, pandal_lon, stations) ==
    ScanStations(pandal_lat, pandal_lon, stations, Len(stations))

Station(i, lat, lon) ==
    [short_code |-> i, name |-> i, location |-> "loc", lines |-> <<"Blue Line">>,
     latitude |-> lat, longitude |-> lon]

\* every facility collection of at most n stations on the grid; the i-th station
\* carries the short code i
StationLists(n) ==
    UNION {{[i \in 1..k |-> Station(i, c[i][1], c[i][2])] :
               c \in [1..k -> GridLat \X GridLon]} : k \in 0..n}

\* The pure function find_nearest_metro_station, applied to every query point of
\* the grid and every facility collection.
InitNearest ==
    /\ metro_stations \in StationLists(MaxStations)
    /\ pandals_data = <<>>
    /\ nearest_result = None
    /\ run = None
    /\ ResolverIdle
    /\ StoreIdle

FindNearest ==
    /\ \E lat \in GridLat, lon \in GridLon :
          LET r == find_nearest_metro_station(lat, lon, metro_stations)
          IN  \* the function has no raise statement: it returns r
              nearest_result' = [lat |-> lat, lon |-> lon, raised |-> "no",
                                 station |-> r[1], distance |-> r[2]]
    /\ UNCHANGED <<metro_stations, pandals_data, run, resolverVars, storeVars>>

NextNearest == FindNearest

SpecNearest == InitNearest /\ [][NextNearest]_vars

(***************************************************************************)
(* process_pandals_with_metro_data                                         *)
(***************************************************************************)

\* a pandal record: an identifier and a name, and the coordinates it carries
\* (coords is the set of coordinate keys present)
Pandal(i, coords, lat, lon) ==
    [k \in {"id", "name"} \cup coords |->
        CASE k = "id" -> i
          [] k = "name" -> "pandal"
          [] k = "latitude" -> lat
          [] k = "longitude" -> lon]

PandalLat == {0, 30}
PandalLon == {30}

\* every query-point list of at most n pandals, each with or without each coordinate
PandalLists(n) ==
    UNION {{[i \in 1..k |-> Pandal(i, c[i][1], c[i][2], c[i][3])] :
               c \in [1..k -> (SUBSET {"latitude", "longitude"})
                                \X PandalLat \X PandalLon]} : k \in 0..n}

\* the keys lines 90-96 assign
MetroKeys == {"nearest_metro_id", "nearest_metro_name", "nearest_metro_location",
              "nearest_metro_lines", "nearest_metro_latitude",
              "nearest_metro_longitude", "nearest_metro_distance_meters"}

\* mutant of UpdatedPandal: the record is built without pandal.copy()
UpdatedPandal_NoCopy(pandal, nearest_station, distance) ==
    [k \in MetroKeys |->
        CASE k = "nearest_metro_id" -> nearest_station["short_code"]
          [] k = "nearest_metro_name" -> nearest_station["name"]
          [] k = "nearest_metro_location" -> nearest_station["location"]
          [] k = "nearest_metro_lines" -> nearest_station["lines"]
          [] k = "nearest_metro_latitude" -> nearest_station["latitude"]
          [] k = "nearest_metro_longitude" -> nearest_station["longitude"]
          [] OTHER -> distance]

\* updated_pandal = pandal.copy() followed by the seven assignments; the distances
\* of the model are whole numbers, which round(distance, 2) leaves as they are
UpdatedPandal(pandal, nearest_station, distance) ==
    [k \in DOMAIN pandal \cup MetroKeys |->
        CASE k = "nearest_metro_id" -> nearest_station["short_code"]
          [] k = "nearest_metro_name" -> nearest_station["name"]
          [] k = "nearest_metro_location" -> nearest_station["location"]
          [] k = "nearest_metro_lines" -> nearest_station["lines"]
          [] k = "nearest_metro_latitude" -> nearest_station["latitude"]
          [] k = "nearest_metro_longitude" -> nearest_station["longitude"]
          [] k = "nearest_metro_distance_meters" -> distance
          [] OTHER -> pandal[k]]

\* the loop of lines 76-98 from pandal i on, updated_pandals being the records
\* appended so far: the list at the end of the loop, or the exception that left it
RECURSIVE EnrichLoop(_, _, _, _)
EnrichLoop(pandals, stations, i, updated_pandals) ==
    IF i > Len(pandals) THEN [raised |-> "no", updated_pandals |-> updated_pandals]
    ELSE LET pandal == pandals[i] IN
         IF ~ {"latitude", "longitude"} \subseteq DOMAIN pandal
         THEN [raised |-> "KeyError", updated_pandals |-> updated_pandals]
         ELSE LET r == find_nearest_metro_station(pandal["latitude"],
                                                  pandal["longitude"], stations)
              IN  IF r[1] = None
                  THEN [raised |-> "TypeError", updated_pandals |-> updated_pandals]
                  ELSE EnrichLoop(pandals, stations, i + 1,
                                  Append(updated_pandals,
                                         UpdatedPandal(pandal, r[1], r[2])))

\* process_pandals_with_metro_data: how the run ended and the output file it left.
\* The file is written after the loop; the statistics that follow it take
\* min() of the distances, which raises on an empty list.
process_pandals_with_metro_data(pandals, stations) ==
    LET loop == EnrichLoop(pandals, stations, 1, <<>>)
        output_data ==
            [statusCode |-> 200,
             data |-> loop.updated_pandals,
             metadata |-> [total_pandals |-> Len(loop.updated_pandals),
                           metro_stations_used |-> Len(stations),
                           processing_completed |-> TRUE]]
    IN  IF loop.raised # "no"
        THEN [raised |-> loop.raised, output_file |-> None]
        ELSE [raised |-> IF Len(loop.updated_pandals) = 0 THEN "ValueError" ELSE "no",
              output_file |-> output_data]

InitEnrich ==
    /\ metro_stations \in StationLists(MaxStations)
    /\ pandals_data \in PandalLists(MaxPandals)
    /\ nearest_result = None
    /\ run = None
    /\ ResolverIdle
    /\ StoreIdle

ProcessPandals ==
    /\ run = None
    /\ run' = process_pandals_with_metro_data(pandals_data, metro_stations)
    /\ UNCHANGED <<metro_stations, pandals_data, nearest_result, resolverVars, storeVars>>

NextEnrich == ProcessPandals

SpecEnrich == InitEnrich /\ [][NextEnrich]_vars

(***************************************************************************)
(* fetch_metro_details.py: decimal numbers                                 *)
(***************************************************************************)

\* round(x, 7) and the 7-digit checks
Precision == 7

\* A number is [w, f]: its whole part and its fractional part in units of
\* 10^-FracDigits.  Unit is the weight of the 7th fractional digit.
Unit == 10 ^ (FracDigits - Precision)

\* w.ddddddd followed by the digit e
Number(w, n7, e) == [w |-> w, f |-> n7 * Unit + e * (Unit \div 10)]

Leq(a, b) == a.w < b.w \/ (a.w = b.w /\ a.f <= b.f)

\* round(x, 7): to the nearest multiple of 10^-7, halves to the even one
round7(x) ==
    LET q == x.f \div Unit
        r == x.f % Unit
        up == IF 2 * r > Unit THEN 1
              ELSE IF 2 * r < Unit THEN 0
              ELSE q % 2
        n7 == q + up
    IN  IF n7 = 10 ^ Precision THEN [w |-> x.w + 1, f |-> 0]
        ELSE [w |-> x.w, f |-> n7 * Unit]

(***************************************************************************)
(* fetch_metro_details.py: the coordinate resolver                         *)
(***************************************************************************)

BoxLatMin == 22
BoxLatMax == 23
BoxLngMin == 87
BoxLngMax == 89

\* mutant of InBox: only the latitude is validated
InBox_LatOnly(lat_f, lng_f) ==
    /\ Leq(Number(BoxLatMin, 0, 0), lat_f)
    /\ Leq(lat_f, Number(BoxLatMax, 0, 0))

\* 22.0 <= lat_f <= 23.0 and 87.0 <= lng_f <= 89.0
InBox(lat_f, lng_f) ==
    /\ Leq(Number(BoxLatMin, 0, 0), lat_f)
    /\ Leq(lat_f, Number(BoxLatMax, 0, 0))
    /\ Leq(Number(BoxLngMin, 0, 0), lng_f)
    /\ Leq(lng_f, Number(BoxLngMax, 0, 0))

\* the five entries of patterns / coord_patterns, the three search_queries and
\* the three urls per query
NumPatterns == 5
NumQueries == 3
NumUrls == 3

\* A group a pattern captured is text: float() turns it into a number, or raises
\* ValueError on text such as "1.2.3" or "-" that [0-9.-]+ also captures.
BadText == [bad |-> TRUE]

Match(lat, lng) == [lat |-> lat, lng |-> lng]

\* the captured pairs of the model: inside the box; inside it and rounding to its
\* corner; longitude just below the box; a latitude that is no number; a latitude
\* just above the box with a longitude that is no number
Matches ==
    { Match(Number(22, 5726000, 0), Number(88, 3639000, 0)),
      Match(Number(22, 9999999, 6), Number(88, 9999999, 6)),
      Match(Number(22, 5726000, 0), Number(86, 9999999, 6)),
      Match(BadText, Number(88, 3639000, 0)),
      Match(Number(23, 0, 1), BadText) }

\* The text of a response, as what re.findall gives on it: the matches of pattern
\* 1 in their order in the text, then those of pattern 2, and so on.
Bodies ==
    UNION {{b \in [1..k -> (1..NumPatterns) \X Matches] :
               \A i \in 1..(k - 1) : b[i][1] <= b[i + 1][1]} : k \in 0..MaxMatches}

\* what requests.get gives: an exception (a timeout), or a response with a status
Responses ==
    {[raised |-> "Timeout", status_code |-> 0, body |-> <<>>],
     [raised |-> "no", status_code |-> 404, body |-> <<>>]}
      \cup {[raised |-> "no", status_code |-> 200, body |-> b] : b \in Bodies}

\* re.findall(pattern, response.text), as the positions of the matches in the body
RECURSIVE FindAll(_, _, _)
FindAll(body, p, k) ==
    IF k > Len(body) THEN <<>>
    ELSE IF body[k][1] = p THEN <<k>> \o FindAll(body, p, k + 1)
    ELSE FindAll(body, p, k + 1)

NotFound == [lat |-> None, lng |-> None, from |-> 0, caught |-> "no"]

\* lines 61-70: the patterns in order and, within one, every match in order; the
\* body lists the matches in that order.  Both groups are converted before the
\* box is tested.
RECURSIVE GoogleScan(_, _)
GoogleScan(body, k) ==
    IF k > Len(body) THEN NotFound
    ELSE LET lat == body[k][2].lat
             lng == body[k][2].lng
         IN  IF lat = BadText \/ lng = BadText
             THEN [NotFound EXCEPT !.caught = "ValueError"]
             ELSE IF InBox(lat, lng)
             THEN [lat |-> round7(lat), lng |-> round7(lng), from |-> k,
                   caught |-> "no"]
             ELSE GoogleScan(body, k + 1)

\* get_google_maps_coordinates: one request; whatever is raised inside is caught
\* by the except of line 75, which returns None, None.  "from" (the position in the
\* body of the match returned) and "caught" are kept for the claims.
get_google_maps_coordinates(response) ==
    IF response.raised # "no" THEN [NotFound EXCEPT !.caught = response.raised]
    ELSE IF response.status_code = 200 THEN GoogleScan(response.body, 1)
    ELSE NotFound

\* lines 115-121: the patterns in order from pattern p on and, of each, matches[0]
\* alone.  float(lat) is evaluated first, and float(lng) only when the latitude is
\* in its range; the values are returned as converted, unrounded.
RECURSIVE AltScan(_, _)
AltScan(body, p) ==
    IF p > NumPatterns THEN NotFound
    ELSE LET matches == FindAll(body, p, 1) IN
         IF matches = <<>> THEN AltScan(body, p + 1)
         ELSE LET lat == body[matches[1]][2].lat
                  lng == body[matches[1]][2].lng
              IN  IF lat = BadText THEN [NotFound EXCEPT !.caught = "ValueError"]
                  ELSE IF ~ (Leq(Number(BoxLatMin, 0, 0), lat)
                               /\ Leq(lat, Number(BoxLatMax, 0, 0)))
                  THEN AltScan(body, p + 1)
                  ELSE IF lng = BadText
                  THEN [NotFound EXCEPT !.caught = "ValueError"]
                  ELSE IF InBox(lat, lng)
                  THEN [lat |-> lat, lng |-> lng, from |-> matches[1],
                        caught |-> "no"]
                  ELSE AltScan(body, p + 1)

\* lines 102-126: one url of get_coordinates_alternative; an exception is caught
\* by the except of line 125, which goes on to the next url
AltAttemptResult(response) ==
    IF response.raised # "no" THEN [NotFound EXCEPT !.caught = response.raised]
    ELSE IF response.status_code = 200 THEN AltScan(response.body, 1)
    ELSE NotFound

\* some match of the body has both values in the box
HasInBoxMatch(body) ==
    \E k \in 1..Len(body) :
        /\ body[k][2].lat # BadText
        /\ body[k][2].lng # BadText
        /\ InBox(body[k][2].lat, body[k][2].lng)

InitResolver ==
    /\ NearestIdle
    /\ ResolverIdle
    /\ StoreIdle

\* a caller (scrape_all_coordinates, force_fix_coordinates) calls
\* get_google_maps_coordinates; the response is what the network gives
CallGoogle ==
    /\ res_pc = "idle"
    /\ \E response \in Responses :
          /\ res_response' = response
          /\ res_result' = get_google_maps_coordinates(response)
    /\ res_fn' = "google"
    /\ res_pc' = "done"
    /\ res_attempt' = 1
    /\ UNCHANGED <<res_earlier, nearestVars, storeVars>>

\* get_coordinates_alternative is entered
CallAlternative ==
    /\ res_pc = "idle"
    /\ res_fn' = "alternative"
    /\ res_pc' = "running"
    /\ UNCHANGED <<res_attempt, res_response, res_result, res_earlier, nearestVars,
                   storeVars>>

\* one iteration of the loops of lines 91 and 101: the next query/url combination
\* is requested; a match returns, anything else goes on to the next combination and,
\* after the last one, to the return None, None of line 128.  The response of an
\* attempt that did not end the call is not used again and is dropped.
AlternativeAttempt ==
    /\ res_pc = "running"
    /\ res_attempt < NumQueries * NumUrls
    /\ \E response \in Responses :
          LET r == AltAttemptResult(response)
              last == (res_attempt + 1 = NumQueries * NumUrls)
          IN  /\ res_attempt' = res_attempt + 1
              /\ IF r.lat # None
                 THEN /\ res_result' = r
                      /\ res_response' = response
                      /\ res_pc' = "done"
                      /\ UNCHANGED res_earlier
                 ELSE IF last
                 THEN /\ res_result' = r
                      /\ res_response' = response
                      /\ res_pc' = "done"
                      /\ UNCHANGED res_earlier
                 ELSE /\ res_result' = None
                      /\ res_response' = None
                      /\ res_pc' = "running"
                      /\ res_earlier' = (res_earlier \/ HasInBoxMatch(response.body))
    /\ UNCHANGED <<res_fn, nearestVars, storeVars>>

NextResolver == CallGoogle \/ CallAlternative \/ AlternativeAttempt

SpecResolver == InitResolver /\ [][NextResolver]_vars

(***************************************************************************)
(* Claims about find_nearest_metro_station (SpecNearest)                   *)
(***************************************************************************)

\* the distance of the i-th station of the collection to the query of the last call
DistTo(i) ==
    haversine_distance(nearest_result.lat, nearest_result.lon,
                       metro_stations[i]["latitude"], metro_stations[i]["longitude"])

Called == nearest_result # None

\* C1: for a non-empty collection the call returns a station of the collection whose
\* distance to the query point is at most that of every station of the collection,
\* together with that station's distance.
C1_ReturnsMinimizer ==
    (Called /\ Len(metro_stations) > 0) =>
        /\ nearest_result.raised = "no"
        /\ \E i \in 1..Len(metro_stations) :
              /\ nearest_result.station = metro_stations[i]
              /\ nearest_result.distance = DistTo(i)
        /\ \A j \in 1..Len(metro_stations) : nearest_result.distance <= DistTo(j)

\* a call whose nearest station is neither the first nor the last of three, the
\* three at three different distances
C1_Witness ==
    /\ Called
    /\ Len(metro_stations) = 3
    /\ nearest_result.station = metro_stations[2]
    /\ DistTo(2) < DistTo(3)
    /\ DistTo(3) < DistTo(1)

\* C2: when several stations are at the minimum distance, the call returns the one
\* of lowest index in the collection's order.
C2_FirstOfTiesWins ==
    (Called /\ Len(metro_stations) > 0) =>
        \A j \in 1..Len(metro_stations) :
            (\A k \in 1..Len(metro_stations) : DistTo(j) <= DistTo(k))
                => nearest_result.station["short_code"] <= j

\* a call where two stations at different places tie for the minimum, after a
\* farther station, and the earlier of the two is returned
C2_Witness ==
    /\ Called
    /\ Len(metro_stations) = 3
    /\ DistTo(2) = DistTo(3)
    /\ DistTo(2) < DistTo(1)
    /\ metro_stations[2]["longitude"] # metro_stations[3]["longitude"]
    /\ nearest_result.station = metro_stations[2]

\* C3: a call with an empty collection ends in NoFacilitiesAvailable and never
\* returns a null station as a normal result.
C3_EmptyIsAnError ==
    (Called /\ Len(metro_stations) = 0) =>
        /\ nearest_result.raised = "NoFacilitiesAvailable"
        /\ nearest_result.station # None

(***************************************************************************)
(* Claims about process_pandals_with_metro_data (SpecEnrich)               *)
(***************************************************************************)

Ran == run # None

WellFormed(pandal) == {"latitude", "longitude"} \subseteq DOMAIN pandal

\* the i-th output record is the i-th pandal, every field of it unchanged, plus the
\* fields of a station of the collection at minimum distance from it
EnrichedFrom(rec, pandal) ==
    /\ DOMAIN rec = DOMAIN pandal \cup MetroKeys
    /\ \A k \in DOMAIN pandal : rec[k] = pandal[k]
    /\ \E s \in 1..Len(metro_stations) :
          LET st == metro_stations[s]
              d == haversine_distance(pandal["latitude"], pandal["longitude"],
                                      st["latitude"], st["longitude"])
          IN  /\ rec["nearest_metro_id"] = st["short_code"]
              /\ rec["nearest_metro_name"] = st["name"]
              /\ rec["nearest_metro_location"] = st["location"]
              /\ rec["nearest_metro_lines"] = st["lines"]
              /\ rec["nearest_metro_latitude"] = st["latitude"]
              /\ rec["nearest_metro_longitude"] = st["longitude"]
              /\ rec["nearest_metro_distance_meters"] = d
              /\ \A t \in 1..Len(metro_stations) :
                    d <= haversine_distance(pandal["latitude"], pandal["longitude"],
                                            metro_stations[t]["latitude"],
                                            metro_stations[t]["longitude"])

OneRecordPerPandal(out) ==
    /\ Len(out.data) = Len(pandals_data)
    /\ out.metadata.total_pandals = Len(pandals_data)
    /\ \A i \in 1..Len(pandals_data) : EnrichedFrom(out.data[i], pandals_data[i])

\* C4: the run writes one enriched record per input query point, in input order,
\* the i-th carrying the i-th query point's fields unchanged plus the nearest-station
\* fields, and total_pandals is the number of query points: every output the run
\* writes is of that shape, and a run over query points that all carry their
\* coordinates, with a non-empty station collection, writes its output.
C4_OneRecordPerPandalInOrder ==
    Ran =>
        /\ run.output_file # None => OneRecordPerPandal(run.output_file)
        /\ ((\A i \in 1..Len(pandals_data) : WellFormed(pandals_data[i]))
              /\ Len(metro_stations) > 0)
           => run.output_file # None

\* a finished run over two query points at different places whose nearest stations
\* differ
C4_Witness ==
    /\ Ran
    /\ run.output_file # None
    /\ Len(run.output_file.data) = 2
    /\ run.output_file.data[1]["latitude"] # run.output_file.data[2]["latitude"]
    /\ run.output_file.data[1]["nearest_metro_id"]
         # run.output_file.data[2]["nearest_metro_id"]

\* C5: a query point lacking latitude or longitude is skipped, and every other query
\* point of the batch is still enriched and written to the output.
C5_MalformedPandalIsSkipped ==
    (Ran /\ Len(metro_stations) > 0) =>
        /\ run.raised # "KeyError"
        /\ run.output_file # None
        /\ \A i \in 1..Len(pandals_data) :
              WellFormed(pandals_data[i]) =>
                  \E j \in 1..Len(run.output_file.data) :
                      EnrichedFrom(run.output_file.data[j], pandals_data[i])

(***************************************************************************)
(* Claims about the coordinate resolver (SpecResolver)                     *)
(***************************************************************************)

Resolved == res_pc = "done"

\* x lies in [lo, hi] degrees
Within(x, lo, hi) ==
    /\ x # None
    /\ x # BadText
    /\ (lo < x.w \/ (lo = x.w /\ x.f >= 0))
    /\ (x.w < hi \/ (x.w = hi /\ x.f = 0))

InsideBox(lat, lng) == Within(lat, 22, 23) /\ Within(lng, 87, 89)

MatchInsideBox(body, k) == InsideBox(body[k][2].lat, body[k][2].lng)

\* C6: the result is the first in-box match in priority order: it is never taken
\* from a match that comes after an in-box match of an earlier pattern (or an
\* earlier position), nor from a later query/endpoint combination than one whose
\* response held an in-box match; in both resolver methods.
C6_FirstInBoxMatchWins ==
    (Resolved /\ res_result.lat # None) =>
        /\ \A k \in 1..(res_result.from - 1) : ~ MatchInsideBox(res_response.body, k)
        /\ ~ res_earlier

\* C7: a returned coordinate lies in 22..23 x 87..89 and stems from a match of the
\* response that lies in the box; otherwise the resolver returns (None, None).
C7_ResultInsideBox ==
    Resolved =>
        /\ (res_result.lat = None) <=> (res_result.lng = None)
        /\ res_result.lat # None =>
              /\ InsideBox(res_result.lat, res_result.lng)
              /\ res_result.from \in 1..Len(res_response.body)
              /\ MatchInsideBox(res_response.body, res_result.from)
        /\ (\A k \in 1..Len(res_response.body) : ~ MatchInsideBox(res_response.body, k))
              => res_result.lat = None

\* get_google_maps_coordinates passed over a match outside the box and returned
\* the next one, rounded onto the corner of the box
C7_Witness ==
    /\ Resolved
    /\ res_fn = "google"
    /\ res_result.from = 2
    /\ ~ MatchInsideBox(res_response.body, 1)
    /\ res_result.lat = Number(23, 0, 0)
    /\ res_result.lng = Number(89, 0, 0)
    /\ res_response.body[2][2].lat # res_result.lat

\* the first match of pattern p in the body, 0 when it has none
FirstOf(body, p) ==
    LET m == FindAll(body, p, 1) IN IF m = <<>> THEN 0 ELSE m[1]

\* C8: a failure of one attempt (a timeout, a non-200 status, a matched value that
\* does not parse) is only a non-match there: the remaining patterns of the
\* response and the remaining query/endpoint attempts are still tried, and nothing
\* is raised to the caller.  So a response with a match in the box that the method
\* looks at (any match for get_google_maps_coordinates, the first of a pattern for
\* get_coordinates_alternative) gives a coordinate, and get_coordinates_alternative
\* gives up only after its last combination.
C8_FailureIsOnlyANonMatch ==
    Resolved =>
        /\ res_fn = "google" =>
              ((\E k \in 1..Len(res_response.body) :
                    MatchInsideBox(res_response.body, k))
                 => res_result.lat # None)
        /\ res_fn = "alternative" =>
              /\ (\E p \in 1..NumPatterns :
                    /\ FirstOf(res_response.body, p) # 0
                    /\ MatchInsideBox(res_response.body, FirstOf(res_response.body, p)))
                 => res_result.lat # None
              /\ res_result.lat = None => res_attempt = NumQueries * NumUrls

(***************************************************************************)
(* fetch_metro_details.py: the station file and the operations on it       *)
(***************************************************************************)

\* the decimal digits of n, in a field of the given width
RECURSIVE DigitsOf(_, _)
DigitsOf(n, width) ==
    IF width = 0 THEN <<>> ELSE Append(DigitsOf(n \div 10, width - 1), n % 10)

\* trailing zeros dropped, down to one digit
RECURSIVE StripZeros(_)
StripZeros(ds) ==
    IF Len(ds) > 1 /\ ds[Len(ds)] = 0 THEN StripZeros(SubSeq(ds, 1, Len(ds) - 1))
    ELSE ds

\* f"{x:.7f}".split('.')[-1]: the value rounded to 7 places, all 7 digits written
Fixed7Fraction(x) ==
    LET r == round7(x) IN DigitsOf((r.f \div Unit) % (10 ^ Precision), Precision)

\* str(x).split('.')[-1] of a float: the shortest digits that give x back
StrFraction(x) == StripZeros(DigitsOf(x.f, FracDigits))

\* a station of the file: its name and the coordinates it carries
StoreStation(i, coords, lat, lng) ==
    [k \in {"name"} \cup coords |->
        CASE k = "name" -> i
          [] k = "latitude" -> lat
          [] k = "longitude" -> lng]

\* what a station of the file may hold at the start: no coordinate, a latitude
\* alone, both with 2 and 3 digits (22.48, 88.381), both with 7 digits, and a
\* 7-digit latitude with a 3-digit longitude; all present values in the box
StartStations(i) ==
    { StoreStation(i, {}, 0, 0),
      StoreStation(i, {"latitude"}, Number(22, 4721796, 0), 0),
      StoreStation(i, {"latitude", "longitude"},
                   Number(22, 4800000, 0), Number(88, 3810000, 0)),
      StoreStation(i, {"latitude", "longitude"},
                   Number(22, 4721796, 0), Number(88, 3952919, 0)),
      StoreStation(i, {"latitude", "longitude"},
                   Number(22, 4721796, 0), Number(88, 3810000, 0)) }

StartLists(n) ==
    UNION {{l \in [1..k -> UNION {StartStations(i) : i \in 1..k}] :
               \A i \in 1..k : l[i] \in StartStations(i)} : k \in 0..n}

File(state, stations) == [state |-> state, stations |-> stations]

\* load_stations: the parsed list; None (here an empty list marked is_none) when the
\* file is missing or is no complete JSON document (both exceptions are caught)
load_stations(file) ==
    IF file.state = "complete" THEN [is_none |-> FALSE, list |-> file.stations]
    ELSE [is_none |-> TRUE, list |-> <<>>]

\* "if not stations": None or an empty list
Not(loaded) == loaded.is_none \/ loaded.list = <<>>

\* what get_google_maps_coordinates can return
GoogleResults ==
    {[lat |-> r.lat, lng |-> r.lng] :
        r \in {get_google_maps_coordinates(x) : x \in Responses}}

\* lines 200-211: both keys present and both written with 7 places having at
\* least 7 digits (the values of the model are numbers, as isinstance asks)
ScrapeSkips(station) ==
    /\ "latitude" \in DOMAIN station
    /\ "longitude" \in DOMAIN station
    /\ Len(Fixed7Fraction(station["latitude"])) >= Precision
    /\ Len(Fixed7Fraction(station["longitude"])) >= Precision

\* lines 269-277: the digits after the point of str(station.get(key, 0)); the
\* default 0 is written "0", with no point
StrDecimals(station, key) ==
    IF key \in DOMAIN station THEN Len(StrFraction(station[key])) ELSE 0

\* lines 279-281
ForceFixSkips(station) ==
    /\ StrDecimals(station, "latitude") >= Precision
    /\ StrDecimals(station, "longitude") >= Precision

Skips(operation, station) ==
    IF operation = "scrape_all" THEN ScrapeSkips(station) ELSE ForceFixSkips(station)

\* station['latitude'] = lat; station['longitude'] = lng
WithCoordinates(station, lat, lng) ==
    [k \in DOMAIN station \cup {"latitude", "longitude"} |->
        CASE k = "latitude" -> lat
          [] k = "longitude" -> lng
          [] OTHER -> station[k]]

\* The loop of scrape_all_coordinates (lines 195-232) and of force_fix_coordinates
\* (lines 264-304) from station i on; found[i] is what get_google_maps_coordinates
\* returns for station i if it is asked.  acc holds the list as updated so far and
\* the counters; submitted (the stations the resolver was asked about) is history.
RECURSIVE FixLoop(_, _, _, _, _)

\* mutant of FixLoop: a station the resolver finds nothing for ends the loop
FixLoop_StopsAtFailure(operation, stations, found, i, acc) ==
    IF i > Len(stations) THEN acc
    ELSE LET station == stations[i] IN
         IF Skips(operation, station)
         THEN FixLoop(operation, stations, found, i + 1, acc)
         ELSE LET asked == [acc EXCEPT !.submitted = @ \cup {i}] IN
              IF found[i].lat # None /\ found[i].lng # None
              THEN FixLoop(operation, stations, found, i + 1,
                     [asked EXCEPT
                        !.stations[i] = WithCoordinates(station, round7(found[i].lat),
                                                        round7(found[i].lng)),
                        !.updated_count = @ + 1])
              ELSE [asked EXCEPT !.failed_stations = Append(@, station["name"])]

FixLoop(operation, stations, found, i, acc) ==
    IF i > Len(stations) THEN acc
    ELSE LET station == stations[i] IN
         IF Skips(operation, station)
         THEN FixLoop(operation, stations, found, i + 1, acc)
         ELSE LET asked == [acc EXCEPT !.submitted = @ \cup {i}] IN
              IF found[i].lat # None /\ found[i].lng # None
              THEN FixLoop(operation, stations, found, i + 1,
                     [asked EXCEPT
                        !.stations[i] = WithCoordinates(station, round7(found[i].lat),
                                                        round7(found[i].lng)),
                        !.updated_count = @ + 1])
              ELSE FixLoop(operation, stations, found, i + 1,
                     [asked EXCEPT !.failed_stations = Append(@, station["name"])])

StartOfLoop(stations) ==
    [stations |-> stations, updated_count |-> 0, failed_stations |-> <<>>,
     submitted |-> {}]

\* lines 335-352: every coordinate becomes round(float(station.get(key, 0)), 7)
FinalFixed(station) ==
    WithCoordinates(station,
        round7(IF "latitude" \in DOMAIN station THEN station["latitude"]
               ELSE Number(0, 0, 0)),
        round7(IF "longitude" \in DOMAIN station THEN station["longitude"]
               ELSE Number(0, 0, 0)))

\* The state of the store when an operation starts with a file on disk.
InitStore ==
    /\ NearestIdle
    /\ ResolverIdle
    /\ stations_file \in {File("missing", <<>>)}
                           \cup {File("complete", l) : l \in StartLists(MaxFileStations)}
    /\ op = "none"
    /\ summary = None
    /\ save_pc = "idle"
    /\ save_list = <<>>
    /\ save_pos = 0
    /\ prev_file = None
    /\ save_failed = FALSE

\* an operation returns before its loop: load_stations gave None or an empty list
ReturnsEarly(operation) ==
    /\ op' = operation
    /\ summary' = None
    /\ prev_file' = stations_file
    /\ UNCHANGED <<stations_file, save_pc, save_list, save_pos, save_failed>>

\* an operation reaches its call of save_stations(stations)
CallsSave(operation, result) ==
    /\ op' = operation
    /\ summary' = [updated_count |-> result.updated_count,
                   failed_stations |-> result.failed_stations,
                   submitted |-> result.submitted]
    /\ prev_file' = stations_file
    /\ save_pc' = "open"
    /\ save_list' = result.stations
    /\ save_pos' = 0
    /\ save_failed' = FALSE
    /\ UNCHANGED stations_file

\* scrape_all_coordinates, up to its call of save_stations
ScrapeAll ==
    /\ save_pc = "idle"
    /\ LET stations == load_stations(stations_file) IN
       IF Not(stations)
       THEN ReturnsEarly("scrape_all")
       ELSE \E found \in [1..Len(stations.list) -> GoogleResults] :
               CallsSave("scrape_all",
                         FixLoop("scrape_all", stations.list, found, 1,
                                 StartOfLoop(stations.list)))
    /\ UNCHANGED <<nearestVars, resolverVars>>

\* force_fix_coordinates, up to its call of save_stations
ForceFix ==
    /\ save_pc = "idle"
    /\ LET stations == load_stations(stations_file) IN
       IF Not(stations)
       THEN ReturnsEarly("force_fix")
       ELSE \E found \in [1..Len(stations.list) -> GoogleResults] :
               CallsSave("force_fix",
                         FixLoop("force_fix", stations.list, found, 1,
                                 StartOfLoop(stations.list)))
    /\ UNCHANGED <<nearestVars, resolverVars>>

\* final_fix_coordinates, up to its call of save_stations
FinalFix ==
    /\ save_pc = "idle"
    /\ LET stations == load_stations(stations_file) IN
       IF Not(stations)
       THEN ReturnsEarly("final_fix")
       ELSE CallsSave("final_fix",
                      [stations |-> [i \in 1..Len(stations.list) |->
                                        FinalFixed(stations.list[i])],
                       updated_count |-> Len(stations.list),
                       failed_stations |-> <<>>,
                       submitted |-> {}])
    /\ UNCHANGED <<nearestVars, resolverVars>>

\* save_stations, line 149: open(self.stations_file, 'w') empties the file, or
\* raises (the file is left as it was) into the except of line 152
SaveOpen ==
    /\ save_pc = "open"
    /\ \/ /\ stations_file' = File("partial", <<>>)
          /\ save_pc' = "dump"
          /\ UNCHANGED save_failed
       \/ /\ save_pc' = "idle"
          /\ save_failed' = TRUE
          /\ UNCHANGED stations_file
    /\ UNCHANGED <<op, summary, save_list, save_pos, prev_file, nearestVars,
                   resolverVars>>

\* save_stations, line 150: json.dump writes the list piece by piece, here station
\* by station; a write may raise (the disk is full), which leaves the with block,
\* closing the file on what was written, and is caught by line 152
SaveDump ==
    /\ save_pc = "dump"
    /\ save_pos < Len(save_list)
    /\ \/ /\ stations_file' = File("partial",
                                   Append(stations_file.stations, save_list[save_pos + 1]))
          /\ save_pos' = save_pos + 1
          /\ UNCHANGED <<save_pc, save_failed>>
       \/ /\ save_pc' = "idle"
          /\ save_failed' = TRUE
          /\ UNCHANGED <<stations_file, save_pos>>
    /\ UNCHANGED <<op, summary, save_list, prev_file, nearestVars, resolverVars>>

\* save_stations: the closing bracket is written and the with block closes the file
SaveClose ==
    /\ save_pc = "dump"
    /\ save_pos = Len(save_list)
    /\ stations_file' = File("complete", stations_file.stations)
    /\ save_pc' = "idle"
    /\ UNCHANGED <<op, summary, save_list, save_pos, prev_file, save_failed,
                   nearestVars, resolverVars>>

NextStore == ScrapeAll \/ ForceFix \/ FinalFix \/ SaveOpen \/ SaveDump \/ SaveClose

SpecStore == InitStore /\ [][NextStore]_vars

(***************************************************************************)
(* Claims about the station file and its operations (SpecStore)            *)
(***************************************************************************)

\* C9: save_stations is all-or-nothing: a reader of the file never finds an empty,
\* truncated or partly written collection, and after a save that failed the file
\* holds the complete collection it held before.
C9_SaveIsAllOrNothing ==
    op # "none" =>
        /\ stations_file.state # "partial"
        /\ save_failed => stations_file = prev_file

\* the station carries both coordinates, each stored with 7 fractional digits
AlreadyPrecise(station) ==
    /\ {"latitude", "longitude"} \subseteq DOMAIN station
    /\ Len(StrFraction(station["latitude"])) >= 7
    /\ Len(StrFraction(station["longitude"])) >= 7

\* C10: scrape_all_coordinates and force_fix_coordinates submit to the resolver
\* every station with a missing coordinate or one stored with fewer than 7
\* fractional digits, and skip only the stations whose two coordinates carry 7.
C10_ImpreciseIsSubmitted ==
    (op \in {"scrape_all", "force_fix"} /\ summary # None) =>
        \A i \in 1..Len(prev_file.stations) :
            (i \in summary.submitted) <=> ~ AlreadyPrecise(prev_file.stations[i])

\* the names in failed_stations
FailedNames == {summary.failed_stations[k] : k \in 1..Len(summary.failed_stations)}

\* What scrape_all_coordinates and force_fix_coordinates do with the stations they
\* loaded: a station is skipped by the operation's check and kept as it is, or
\* submitted and listed as failed and kept as it is, or submitted and given
\* coordinates in the box; a failure does not stop the loop; the counters add up;
\* the list handed to save_stations is what a save that did not fail leaves on disk.
StationsAccountedFor ==
    LET before == prev_file.stations
        n == Len(before)
    IN  /\ prev_file.state = "complete"
        /\ Len(save_list) = n
        /\ FailedNames \subseteq summary.submitted
        /\ Len(summary.failed_stations) = Cardinality(FailedNames)
        /\ \A j \in 1..n :
              /\ j \notin summary.submitted =>
                    /\ Skips(op, before[j])
                    /\ save_list[j] = before[j]
              /\ j \in FailedNames => save_list[j] = before[j]
              /\ j \in summary.submitted \ FailedNames =>
                    /\ save_list[j]["name"] = before[j]["name"]
                    /\ InsideBox(save_list[j]["latitude"], save_list[j]["longitude"])
        /\ summary.updated_count = Cardinality(summary.submitted \ FailedNames)
        /\ summary.updated_count + Len(summary.failed_stations)
              + (n - Cardinality(summary.submitted)) = n
        /\ save_pc = "open" => stations_file = prev_file
        /\ (save_pc = "idle" /\ ~ save_failed)
              => stations_file = File("complete", save_list)

\* C11 (as amended): in scrape_all_coordinates and force_fix_coordinates a station
\* the resolver finds nothing for is listed as failed and keeps its coordinates,
\* the later stations are still processed, every loaded station is skipped, updated
\* or failed, and the list is handed to save_stations after the loop; the operation
\* ends without processing or saving only when the load failed or the loaded
\* collection is empty.
C11_FailureIsIsolated ==
    op \in {"scrape_all", "force_fix"} =>
        /\ summary # None => StationsAccountedFor /\ prev_file.stations # <<>>
        /\ summary = None =>
              /\ prev_file.state # "complete" \/ prev_file.stations = <<>>
              /\ stations_file = prev_file

\* force_fix_coordinates found nothing for the first station, which keeps its
\* stored coordinates, updated the second, and saved the list
C11_Witness ==
    /\ op = "force_fix"
    /\ summary # None
    /\ summary.failed_stations = <<1>>
    /\ summary.submitted = {1, 2}
    /\ summary.updated_count = 1
    /\ "latitude" \in DOMAIN prev_file.stations[1]
    /\ save_list[2] # prev_file.stations[2]
    /\ save_pc = "idle"
    /\ ~ save_failed
    /\ stations_file.stations[1] = prev_file.stations[1]

\* C11 (as claimed): the same, with a load failure as the only way the operation
\* ends without processing or saving.
C11_OnlyLoadFailureEndsEarly ==
    op \in {"scrape_all", "force_fix"} =>
        /\ summary # None => StationsAccountedFor
        /\ summary = None => prev_file.state # "complete"

\* C12: from a collection whose coordinates are missing or in the box, after any
\* sequence of scrape_all_coordinates, force_fix_coordinates and
\* final_fix_coordinates every latitude and longitude in the file is in the box
\* (22..23, 87..89); no operation writes a value outside it, such as a default 0
\* for a missing coordinate.
C12_PersistedCoordinatesInBox ==
    \A i \in 1..Len(stations_file.stations) :
        LET station == stations_file.stations[i] IN
        /\ "latitude" \in DOMAIN station => Within(station["latitude"], 22, 23)
        /\ "longitude" \in DOMAIN station => Within(station["longitude"], 87, 89)

====
